---- MODULE Spec2Model ----
(***************************************************************************)
(* cuRNN: the flattened tensor4 container with its bound-checking          *)
(* subscript accessor (tensor.cuh) and the layer built on top of it        *)
(* (layer.hpp).                                                            *)
(*                                                                         *)
(* Offsets are 0-based as in the C++ source; the TLA+ sequence `data` is   *)
(* 1-based, so data[offset] of the source is data[offset + 1] here.        *)
(***************************************************************************)
EXTENDS Integers, Sequences, FiniteSets, TLC

(* ------------------------------ bounds -------------------------------- *)
\* largest extent an axis is given by a constructor or by reshape
MaxExt == 2
\* largest backing store the model allocates (guard of construct / reshape)
MaxSize == 8
\* the element type dType is modelled as 0..DTypeMax; DTypeMax stands for
\* std::numeric_limits<dType>::max() and 0 for the value data is filled with
DTypeMax == 1
\* number of element stores a behaviour performs
MaxWrites == 1
\* largest template parameter (_nodes, _inputs, _depth) of a layer
MaxLayerDim == 2

(* ----------------------- program constants ---------------------------- *)
\* std::numeric_limits<uint>::max(), the "no offset" marker of the mutable
\* accessor; written as the bit pattern of (uint)-1
UIntMax == -1
\* the "keep the dimensionality" argument of reshape
KeepDim == -1
\* the addr recorded when an access touches no element of data
NoAddr == -2

Values == 0..DTypeMax
Dims == -1..4
Indices == -1..MaxExt
ReshapeArgs == {KeepDim} \cup (0..MaxExt)

VARIABLES
    w, x, y, z,      \* tensor4: the four extents
    data,            \* tensor4: the backing store
    call,            \* the last operation and its arguments
    ret,             \* what the last element access did
    writes,          \* element stores performed so far
    tpl,             \* layer: the template arguments _nodes, _inputs, _depth
    numNodes, numInputs, depth, outputs   \* layer: its own fields

tensorVars == <<w, x, y, z, data>>
layerVars == <<tpl, numNodes, numInputs, depth, outputs>>
vars == <<w, x, y, z, data, call, ret, writes, tpl, numNodes, numInputs, depth, outputs>>

(* ------------------------------ helpers ------------------------------- *)
\* std::vector<dType>( n, v )
Filled(n, v) == [p \in 1..n |-> v]

\* the call record: every operation fills the fields it has
Call(name, dim, index, val, args) ==
    [name |-> name, dim |-> dim, index |-> index, val |-> val, args |-> args]

NoArgs == <<>>
NoRet == [addr |-> NoAddr, value |-> 0, diag |-> 0, oob |-> FALSE]

\* std::vector::size()
size == Len(data)

\* the extent of axis dim (tensor->w, ->x, ->y, ->z)
Extent(dim) ==
    CASE dim = 0 -> w
      [] dim = 1 -> x
      [] dim = 2 -> y
      [] dim = 3 -> z
      [] OTHER -> 0

ValidDim(dim) == dim \in 0..3
InRange(dim, index) == ValidDim(dim) /\ index >= 0 /\ index < Extent(dim)

(* --------------- tensorBoundChecker::operator[] (mutable) ------------- *)
\* the switch of the mutable accessor for a dimension 0..3: the flat offset
\* of (dim, index), or UIntMax when index is outside the axis
MutableOffset(dim, index) ==
    CASE dim = 0 -> IF index >= 0 /\ index < w THEN index ELSE UIntMax
      [] dim = 1 -> IF index >= 0 /\ index < x THEN w + index ELSE UIntMax
      [] dim = 2 -> IF index >= 0 /\ index < y THEN w + x + index ELSE UIntMax
      [] dim = 3 -> IF index >= 0 /\ index < z THEN w + x + y + index ELSE UIntMax

\* the whole mutable accessor: the offset of the element the returned
\* reference names and the number of messages written to std::cerr
MutableSubscript(dim, index) ==
    IF ~ValidDim(dim)
    THEN [addr |-> 0, diag |-> 1]
    ELSE IF MutableOffset(dim, index) = UIntMax
         THEN [addr |-> 0, diag |-> 1]
         ELSE [addr |-> MutableOffset(dim, index), diag |-> 0]

(* ---------------- tensorBoundChecker::operator[] const ---------------- *)
\* tensor->data[ addr ]: an element of the store, or, past its end, whatever
\* the out-of-bounds read produces (junk)
Element(addr, junk) == IF addr < size THEN data[addr + 1] ELSE junk

\* mutant of ConstOffset: a row-major offset in place of the additive one
ConstOffsetRowMajor(dim, index) ==
    CASE dim = 0 -> IF index >= 0 /\ index < w THEN index ELSE NoAddr
      [] dim = 1 -> IF index >= 0 /\ index < x THEN w * index ELSE NoAddr
      [] dim = 2 -> IF index >= 0 /\ index < y THEN w * x * index ELSE NoAddr
      [] dim = 3 -> IF index >= 0 /\ index < z THEN w * x * y * index ELSE NoAddr

\* the offset the const accessor reads for a dimension 0..3, NoAddr when the
\* index is outside the axis and nothing is read
ConstOffset(dim, index) ==
    CASE dim = 0 -> IF index >= 0 /\ index < w THEN index ELSE NoAddr
      [] dim = 1 -> IF index >= 0 /\ index < x THEN w + index ELSE NoAddr
      [] dim = 2 -> IF index >= 0 /\ index < y THEN w + x + index ELSE NoAddr
      [] dim = 3 -> IF index >= 0 /\ index < z THEN w + x + y + index ELSE NoAddr

\* the const accessor reads data past its end
ConstPastEnd(dim, index) ==
    ValidDim(dim) /\ ConstOffset(dim, index) # NoAddr /\ ~(ConstOffset(dim, index) < size)

\* the whole const accessor: the offset read, the local `output` and the
\* number of messages written to std::cerr
ConstSubscript(dim, index, junk) ==
    IF ~ValidDim(dim)
    THEN [addr |-> NoAddr, output |-> DTypeMax, diag |-> 1]
    ELSE LET addr == ConstOffset(dim, index)
             output == IF addr = NoAddr THEN DTypeMax ELSE Element(addr, junk)
         IN  [addr |-> addr, output |-> output,
              diag |-> IF output = DTypeMax THEN 1 ELSE 0]

(* ------------------------------ tensor4 ------------------------------- *)
\* tensor4() and tensor4( _w, _x, _y, _z )
Construct(_w, _x, _y, _z) ==
    /\ w = _w /\ x = _x /\ y = _y /\ z = _z
    /\ data = Filled(_w * _x * y * _z, 0)

\* mutant of ReshapeExtent: 0, not -1, taken as "keep the dimensionality"
ReshapeExtentZeroKeeps(new, cur) == IF new # 0 /\ new # KeepDim THEN new ELSE cur

\* one axis of reshape: -1 keeps the extent
ReshapeExtent(new, cur) == IF new # KeepDim THEN new ELSE cur

\* mutant of Resize: the store only ever grows, a shrink is ignored
ResizeGrowOnly(s, n, v) ==
    IF n >= Len(s) THEN [p \in 1..n |-> IF p <= Len(s) THEN s[p] ELSE v] ELSE s

\* mutant of Resize: assign( n, v ) in place of resize( n, v )
ResizeAssign(s, n, v) == [p \in 1..n |-> v]

\* std::vector::resize( n, v )
Resize(s, n, v) == [p \in 1..n |-> IF p <= Len(s) THEN s[p] ELSE v]

\* tensor4::reshape( w_new, x_new, y_new, z_new )
Reshape(w_new, x_new, y_new, z_new) ==
    /\ ReshapeExtent(w_new, w) * ReshapeExtent(x_new, x)
         * ReshapeExtent(y_new, y) * ReshapeExtent(z_new, z) <= MaxSize
    /\ w' = ReshapeExtent(w_new, w)
    /\ x' = ReshapeExtent(x_new, x)
    /\ y' = ReshapeExtent(y_new, y)
    /\ z' = ReshapeExtent(z_new, z)
    /\ data' = Resize(data, w' * x' * y' * z', 0)
    /\ call' = Call("reshape", 0, 0, 0, <<w_new, x_new, y_new, z_new>>)
    /\ ret' = NoRet
    /\ UNCHANGED <<writes, layerVars>>

\* t[ dim ][ index ] = v : tensor4::operator[] and then the mutable accessor.
\* A store past the end of the vector is undefined; the model leaves data as
\* it is and records the access as out of bounds.
Write(dim, index, v) ==
    /\ writes < MaxWrites
    /\ LET s == MutableSubscript(dim, index)
       IN  /\ data' = IF s.addr < size THEN [data EXCEPT ![s.addr + 1] = v] ELSE data
           /\ ret' = [addr |-> s.addr, value |-> v, diag |-> s.diag,
                      oob |-> ~(s.addr < size)]
    /\ call' = Call("write", dim, index, v, NoArgs)
    /\ writes' = writes + 1
    /\ UNCHANGED <<w, x, y, z, layerVars>>

\* v = t[ dim ][ index ] : tensor4::operator[] and then the mutable accessor
\* (tensor4::operator[] hands out a non-const checker). A load past the end
\* of the vector is undefined and may produce any value.
Read(dim, index) ==
    /\ \E junk \in (IF MutableSubscript(dim, index).addr < size THEN {0} ELSE Values) :
         LET s == MutableSubscript(dim, index)
         IN  ret' = [addr |-> s.addr, value |-> Element(s.addr, junk),
                     diag |-> s.diag, oob |-> ~(s.addr < size)]
    /\ call' = Call("read", dim, index, 0, NoArgs)
    /\ UNCHANGED <<tensorVars, writes, layerVars>>

\* v = c[ index ] on a const tensorBoundChecker c of dimension dim. The
\* accessor returns a reference to its local `output` (or to a temporary),
\* which is gone when the caller reads it: the caller may see any value.
ReadConst(dim, index) ==
    /\ \E junk \in (IF ConstPastEnd(dim, index) THEN Values ELSE {0}), seen \in Values :
         LET s == ConstSubscript(dim, index, junk)
         IN  ret' = [addr |-> s.addr, value |-> seen, diag |-> s.diag,
                     oob |-> (s.addr # NoAddr /\ ~(s.addr < size))]
    /\ call' = Call("readConst", dim, index, 0, NoArgs)
    /\ UNCHANGED <<tensorVars, writes, layerVars>>

(* --------------------------- specification ---------------------------- *)
\* no layer is built around a free-standing tensor
NoLayer ==
    /\ tpl = [nodes |-> 0, inputs |-> 0, depth |-> 0]
    /\ numNodes = 0 /\ numInputs = 0 /\ depth = 0 /\ outputs = <<>>

Init ==
    /\ \E _w \in 0..MaxExt, _x \in 0..MaxExt, _y \in 0..MaxExt, _z \in 0..MaxExt :
         /\ _w * _x * _y * _z <= MaxSize
         /\ Construct(_w, _x, _y, _z)
         /\ call = Call("construct", 0, 0, 0, <<_w, _x, _y, _z>>)
    /\ ret = NoRet
    /\ writes = 0
    /\ NoLayer

\* the caller takes the result of the last operation; nothing of the tensor
\* or of the layer changes
Return ==
    /\ call.name # "none"
    /\ call' = Call("none", 0, 0, 0, NoArgs)
    /\ ret' = NoRet
    /\ UNCHANGED <<tensorVars, writes, layerVars>>

\* no operation is pending: the next one may be called
Ready == call.name = "none"

Next ==
    \/ Return
    \/ /\ Ready
       /\ \E a \in ReshapeArgs, b \in ReshapeArgs, c \in ReshapeArgs, d \in ReshapeArgs :
            Reshape(a, b, c, d)
    \/ /\ Ready
       /\ \E dim \in Dims, index \in Indices, v \in Values : Write(dim, index, v)
    \/ /\ Ready
       /\ \E dim \in Dims, index \in Indices : Read(dim, index)
    \/ /\ Ready
       /\ \E dim \in Dims, index \in Indices : ReadConst(dim, index)

Spec == Init /\ [][Next]_vars

(* ------------------------------- layer -------------------------------- *)
Max(a, b) == IF a > b THEN a ELSE b

\* the tensor held in the variables w, x, y, z, data, as one value
ThisTensor == [w |-> w, x |-> x, y |-> y, z |-> z, data |-> data]

\* tensor4::operator()( w_new, x_new, y_new, z_new ): the four extents are
\* assigned and data( w * x * y * z, 0 ) follows, which its comment gives as
\* the construction of the store; nothing is returned
TensorCall(t, w_new, x_new, y_new, z_new) ==
    [w |-> w_new, x |-> x_new, y |-> y_new, z |-> z_new,
     data |-> Filled(w_new * x_new * y_new * z_new, 0)]

\* the page layout of wba drawn in the comment of layer::layer: a page per
\* depth index; in a page M = max( inputs, nodes ) rows of weights, one row
\* per input, then a row of biases and a row of activations; a column per node
PageRows == Max(numInputs, numNodes) + 2
PageSize == PageRows * numNodes
WeightCell(n, i, d) == d * PageSize + i * numNodes + n
BiasCell(n, d) == d * PageSize + Max(numInputs, numNodes) * numNodes + n
ActivationCell(n, d) == d * PageSize + (Max(numInputs, numNodes) + 1) * numNodes + n

\* the wba the storage policy of a layer constructs: a tensor that holds
\* depth pages
PolicyConstruct(_nodes, _inputs, _depth) ==
    Construct(_nodes, Max(_inputs, _nodes) + 2, _depth, 1)

\* layer::layer()
LayerConstruct(_nodes, _inputs, _depth) ==
    /\ numNodes = _nodes /\ numInputs = _inputs /\ depth = _depth
    /\ outputs = Filled(_nodes, 0)

\* the loops of initializeWeights from their k-th iteration on, d outermost
\* and n innermost: each iteration evaluates this->wba( n, i, d, 0 ), which
\* is tensor4::operator(), and has no element to give the drawn value to
RECURSIVE WeightLoop(_, _)
WeightLoop(t, k) ==
    IF k >= depth * numInputs * numNodes
    THEN t
    ELSE WeightLoop(TensorCall(t, k % numNodes,
                               (k \div numNodes) % numInputs,
                               k \div (numNodes * numInputs), 0),
                    k + 1)

\* mutant of InitializeWeights: the drawn values are stored in outputs
InitializeWeightsIntoOutputs(min, max) ==
    /\ \E r \in min..max : outputs' = [n \in 1..numNodes |-> r]
    /\ call' = Call("initializeWeights", 0, 0, 0, <<min, max>>)
    /\ ret' = NoRet
    /\ UNCHANGED <<tensorVars, writes, tpl, numNodes, numInputs, depth>>

\* layer::initializeWeights( min, max )
InitializeWeights(min, max) ==
    /\ LET t == WeightLoop(ThisTensor, 0)
       IN  /\ w' = t.w /\ x' = t.x /\ y' = t.y /\ z' = t.z
           /\ data' = t.data
    /\ call' = Call("initializeWeights", 0, 0, 0, <<min, max>>)
    /\ ret' = NoRet
    /\ UNCHANGED <<writes, layerVars>>

LayerInit ==
    /\ \E _nodes \in 0..MaxLayerDim, _inputs \in 0..MaxLayerDim, _depth \in 0..MaxLayerDim :
         /\ tpl = [nodes |-> _nodes, inputs |-> _inputs, depth |-> _depth]
         /\ PolicyConstruct(_nodes, _inputs, _depth)
         /\ LayerConstruct(_nodes, _inputs, _depth)
         /\ call = Call("layer", 0, 0, 0, <<_nodes, _inputs, _depth>>)
    /\ ret = NoRet
    /\ writes = 0

\* a layer: its wba is written through the tensor's subscripts (the biases
\* and activations are stored that way) and its weights are initialized
LayerNext ==
    \/ Return
    \/ /\ Ready
       /\ \E min \in Values, max \in Values : min <= max /\ InitializeWeights(min, max)
    \/ /\ Ready
       /\ \E dim \in Dims, index \in Indices, v \in Values : Write(dim, index, v)

LayerSpec == LayerInit /\ [][LayerNext]_vars

\* a store and then a load of the element just stored, nothing in between
RoundTripNext ==
    \/ Return
    \/ /\ Ready
       /\ \E dim \in Dims, index \in Indices, v \in Values : Write(dim, index, v)
    \/ /\ call.name = "write"
       /\ Read(call.dim, call.index)
    \/ /\ call.name = "write"
       /\ ReadConst(call.dim, call.index)

RoundTripSpec == Init /\ [][RoundTripNext]_vars

(* ------------------------------ claims -------------------------------- *)
IsAccess(c) == c.name \in {"write", "read", "readConst"}
IsWritable(c) == c.name \in {"write", "read"}
Min(a, b) == IF a < b THEN a ELSE b

\* C1: after construction, and after any sequence of reshape calls and
\* element writes, size() is the product w*x*y*z of the current extents.
C1_SizeIsProduct == size = w * x * y * z

C1_Witness ==
    /\ call.name = "reshape" /\ writes > 0
    /\ size = w * x * y * z /\ size > 1

\* C2: with a valid dimension and an in-range index, dimension 0 addresses
\* data[index], dimension 1 data[w + index], dimension 2 data[w + x + index]
\* and dimension 3 data[w + x + y + index], in the writable and in the
\* read-only accessor alike.
C2_AdditiveOffset ==
    (IsAccess(call) /\ InRange(call.dim, call.index)) =>
        /\ call.dim = 0 => ret.addr = call.index
        /\ call.dim = 1 => ret.addr = w + call.index
        /\ call.dim = 2 => ret.addr = w + x + call.index
        /\ call.dim = 3 => ret.addr = w + x + y + call.index

C2_Witness ==
    /\ call.name = "readConst" /\ call.dim = 3 /\ InRange(3, call.index)
    /\ ret.addr = w + x + y + call.index
    /\ ~ret.oob

\* C3: a value written at (d, index), d in 0..3 and index inside the axis,
\* is the value the next read of (d, index) returns.
C3_WriteReadRoundTrip ==
    [][(/\ call.name = "write" /\ InRange(call.dim, call.index)
        /\ call'.name \in {"read", "readConst"}
        /\ call'.dim = call.dim /\ call'.index = call.index)
       => ret'.value = call.val]_vars

\* C4: a valid dimension with an index outside the axis emits one diagnostic
\* and yields the first element of the store (writable access) or the
\* maximum of the element type (read-only access).
C4_OutOfRangeSentinel ==
    (IsAccess(call) /\ ValidDim(call.dim) /\ ~InRange(call.dim, call.index)) =>
        /\ ret.diag = 1
        /\ IsWritable(call) => (ret.addr = 0 /\ size > 0 /\ ret.value = data[1])
        /\ call.name = "readConst" => ret.value = DTypeMax

\* C5: a dimension selector outside 0..3 emits a diagnostic and yields the
\* first element of the store (writable access) or the maximum of the
\* element type (read-only access).
C5_InvalidDimSentinel ==
    (IsAccess(call) /\ ~ValidDim(call.dim)) =>
        /\ ret.diag >= 1
        /\ IsWritable(call) => (ret.addr = 0 /\ size > 0 /\ ret.value = data[1])
        /\ call.name = "readConst" => ret.value = DTypeMax

\* C6: reshape keeps the extent of every axis whose argument is -1, gives
\* every other axis its (non-negative) argument, and resizes the store to
\* the product of the resulting extents.
C6_ReshapeExtents ==
    [][call'.name = "reshape" =>
        /\ w' = IF call'.args[1] = -1 THEN w ELSE call'.args[1]
        /\ x' = IF call'.args[2] = -1 THEN x ELSE call'.args[2]
        /\ y' = IF call'.args[3] = -1 THEN y ELSE call'.args[3]
        /\ z' = IF call'.args[4] = -1 THEN z ELSE call'.args[4]
        /\ Len(data') = w' * x' * y' * z']_vars

C6_Witness ==
    /\ call.name = "reshape"
    /\ call.args[1] = -1 /\ w = 2
    /\ call.args[2] = 0 /\ x = 0
    /\ call.args[3] = 1 /\ y = 1
    /\ size = 0

\* C9: reshape leaves every flat position below both the old and the new
\* length as it was and fills every position from the old length up to the
\* new one with zero.
C9_ReshapePreservesPrefix ==
    [][call'.name = "reshape" =>
        /\ \A p \in 1..Min(Len(data), Len(data')) : data'[p] = data[p]
        /\ \A p \in (Len(data) + 1)..Len(data') : data'[p] = 0]_vars

C9_Witness ==
    /\ call.name = "reshape" /\ writes > 0
    /\ size > 2 /\ data[2] # 0 /\ data[size] = 0

\* C10: every element access, the first-element fallback included, addresses
\* a flat offset below the length of the store.
C10_AccessWithinStore ==
    (IsAccess(call) /\ ret.addr # NoAddr) => ret.addr < size

\* C7: after initializeWeights(min, max), min <= max, every weight cell
\* (node, input, depth) of wba holds a value in [min, max] and every cell of
\* the bias and activation rows holds the value it held before the call.
C7_WeightsInRangeBiasesKept ==
    [][(call'.name = "initializeWeights" /\ call'.args[1] <= call'.args[2]) =>
        /\ \A n \in 0..(numNodes - 1), i \in 0..(numInputs - 1), d \in 0..(depth - 1) :
             /\ WeightCell(n, i, d) < Len(data')
             /\ data'[WeightCell(n, i, d) + 1] \in call'.args[1]..call'.args[2]
        /\ \A n \in 0..(numNodes - 1), d \in 0..(depth - 1) :
             /\ BiasCell(n, d) < Len(data')
             /\ data'[BiasCell(n, d) + 1] = data[BiasCell(n, d) + 1]
             /\ ActivationCell(n, d) < Len(data')
             /\ data'[ActivationCell(n, d) + 1] = data[ActivationCell(n, d) + 1]]_vars

\* C8: after the construction of a layer and after any number of
\* initializeWeights calls, numNodes, numInputs and depth are the template
\* arguments and outputs is numNodes zeros.
C8_LayerFieldsFixed ==
    /\ numNodes = tpl.nodes /\ numInputs = tpl.inputs /\ depth = tpl.depth
    /\ Len(outputs) = numNodes
    /\ \A k \in 1..Len(outputs) : outputs[k] = 0

C8_Witness ==
    /\ call.name = "initializeWeights" /\ call.args = <<1, 1>>
    /\ numNodes = 2 /\ numInputs = 1 /\ depth = 2
    /\ outputs = <<0, 0>>

(* ----------------- accesses of a tensor that holds its windows -------- *)
\* a constructed tensor whose four windows all lie inside the store: every
\* offset w + x + y + index of an in-range index is below size
FittingInit ==
    /\ \E _w \in 1..MaxExt, _x \in 1..MaxExt, _y \in 1..MaxExt, _z \in 1..MaxExt :
         /\ _w * _x * _y * _z <= MaxSize
         /\ _w + _x + _y + _z <= _w * _x * _y * _z
         /\ Construct(_w, _x, _y, _z)
         /\ call = Call("construct", 0, 0, 0, <<_w, _x, _y, _z>>)
    /\ ret = NoRet
    /\ writes = 0
    /\ NoLayer

\* stores and loads only: the extents stay as constructed
AccessNext ==
    \/ Return
    \/ /\ Ready
       /\ \E dim \in Dims, index \in Indices, v \in Values : Write(dim, index, v)
    \/ /\ Ready
       /\ \E dim \in Dims, index \in Indices : Read(dim, index)
    \/ /\ Ready
       /\ \E dim \in Dims, index \in Indices : ReadConst(dim, index)

AccessSpec == FittingInit /\ [][AccessNext]_vars

\* C11: an access with a dimension in 0..3 and an index inside the axis is
\* never reported, whatever the element holds; a diagnostic is emitted if
\* and only if the dimension or the index is invalid.
C11_DiagnosticIffInvalid ==
    IsAccess(call) => ((ret.diag > 0) <=> ~InRange(call.dim, call.index))

====
